---- MODULE Spec2Model ----
(***************************************************************************)
(* Model of src/minesweeper.py: the Sentence class and the MinesweeperAI   *)
(* knowledge base, driven by a Minesweeper board with a hidden mine layout. *)
(* Cells are pairs <<i, j>>, 0-indexed as in the source.  The knowledge     *)
(* list is a sequence of records [cells, count]; Python list positions      *)
(* 0..n-1 are sequence positions 1..n.                                      *)
(***************************************************************************)
EXTENDS Integers, Sequences, FiniteSets, TLC

VARIABLES
    height, width,   \* MinesweeperAI.height, MinesweeperAI.width
    board_mines,     \* Minesweeper.mines: the hidden layout
    moves_made,      \* MinesweeperAI.moves_made
    mines,           \* MinesweeperAI.mines
    safes,           \* MinesweeperAI.safes
    knowledge,       \* MinesweeperAI.knowledge
    raised,          \* "none", or the exception that ended add_knowledge
    returned,        \* what the last call of make_safe_move or make_random_move
                     \* returned, if the engine has not changed since
    sentence,        \* a Sentence held outside any knowledge base
    hist             \* its first value and the cells it was told about

vars == <<height, width, board_mines, moves_made, mines, safes, knowledge,
          raised, returned, sentence, hist>>

engine_vars == <<moves_made, mines, safes, knowledge, raised, returned>>

(* ---------------------------- bounds ----------------------------------- *)

\* Largest number of hidden mines in a layout drawn by Init.
MaxMines == 3

\* A cell already probed is probed again only while the knowledge list is
\* shorter than this (every such call can append a sentence).
MaxSentences == 2

\* An arbitrary caller reports counts in 0..MaxCount, and stops calling
\* add_knowledge once a sentence holds a count outside -MaxCount..MaxCount
\* (untruthful counts can drift without limit).
MaxCount == 3

\* Board sizes (height, width) drawn by Init.
Boards == {<<2, 2>>, <<2, 3>>, <<3, 3>>}

(* ---------------------------- Minesweeper ------------------------------ *)

\* All cells of a height x width board.
board_cells(h, w) == {<<i, j>> : i \in 0..(h - 1), j \in 0..(w - 1)}

\* The in-bounds cells within one row and column of cell, cell excluded
\* (the double loop of nearby_mines and of add_knowledge).
neighbours(cell, h, w) ==
    {n \in ((cell[1] - 1)..(cell[1] + 1)) \X ((cell[2] - 1)..(cell[2] + 1)) :
        /\ n # cell
        /\ 0 <= n[1] /\ n[1] < h /\ 0 <= n[2] /\ n[2] < w}

\* Minesweeper.nearby_mines
nearby_mines(cell, h, w, layout) ==
    Cardinality(neighbours(cell, h, w) \cap layout)

\* Minesweeper.is_mine
is_mine(cell, layout) == cell \in layout

(* ---------------------------- Sentence --------------------------------- *)

\* Sentence.__init__
Sentence(cells, count) == [cells |-> cells, count |-> count]

\* known_mines without its "all mines" case.
known_mines_none(s) == {}

\* Sentence.known_mines.  The fall-through return value None is
\* represented by {}: its callers use the result only when it is truthy.
known_mines(s) ==
    IF s.count = 0 THEN {}
    ELSE IF s.count = Cardinality(s.cells) THEN s.cells
    ELSE {}

\* known_safes with the two cases exchanged.
known_safes_swapped(s) ==
    IF s.count = Cardinality(s.cells) THEN s.cells ELSE {}

\* Sentence.known_safes, None represented as for known_mines.
known_safes(s) ==
    IF s.count = 0 THEN s.cells
    ELSE IF s.count = Cardinality(s.cells) THEN {}
    ELSE {}

\* Sentence.mark_mine without "self.count -= 1".
Sentence_mark_mine_keep_count(s, cell) ==
    [cells |-> s.cells \ {cell}, count |-> s.count]

\* Sentence.mark_mine
Sentence_mark_mine(s, cell) ==
    IF cell \in s.cells
    THEN [cells |-> s.cells \ {cell}, count |-> s.count - 1]
    ELSE s

\* Sentence.mark_safe with the count update of mark_mine.
Sentence_mark_safe_decrement(s, cell) ==
    IF cell \in s.cells
    THEN [cells |-> s.cells \ {cell}, count |-> s.count - 1]
    ELSE s

\* Sentence.mark_safe
Sentence_mark_safe(s, cell) ==
    IF cell \in s.cells
    THEN [cells |-> s.cells \ {cell}, count |-> s.count]
    ELSE s

(* ---------------------------- MinesweeperAI ---------------------------- *)

\* An intermediate result v that is used more than once is bound as
\* "CHOOSE out \in {f(v) : v \in {e}} : TRUE", which is f(e) with e
\* evaluated once.

\* The loop of mark_mine stopping after the first sentence of the list.
knowledge_mark_mine_first(kb, cell) ==
    [k \in 1..Len(kb) |->
        IF k = 1 THEN Sentence_mark_mine(kb[k], cell) ELSE kb[k]]

\* The loop of MinesweeperAI.mark_mine over the knowledge list.
knowledge_mark_mine(kb, cell) ==
    [k \in 1..Len(kb) |-> Sentence_mark_mine(kb[k], cell)]

\* The loop of MinesweeperAI.mark_safe over the knowledge list.
knowledge_mark_safe(kb, cell) ==
    [k \in 1..Len(kb) |-> Sentence_mark_safe(kb[k], cell)]

\* MinesweeperAI.mark_mine / mark_safe for every cell of a set, one call per
\* cell (the "for cell in x" loops of add_knowledge); the calls commute.
RECURSIVE knowledge_mark_mines(_, _)
knowledge_mark_mines(kb, cs) ==
    IF cs = {} THEN kb
    ELSE LET c == CHOOSE c \in cs : TRUE
         IN  knowledge_mark_mines(knowledge_mark_mine(kb, c), cs \ {c})

RECURSIVE knowledge_mark_safes(_, _)
knowledge_mark_safes(kb, cs) ==
    IF cs = {} THEN kb
    ELSE LET c == CHOOSE c \in cs : TRUE
         IN  knowledge_mark_safes(knowledge_mark_safe(kb, c), cs \ {c})

\* list.remove(x): drops the first element equal to x (Sentence.__eq__).
first_index(kb, s) == CHOOSE k \in 1..Len(kb) :
                         /\ kb[k] = s
                         /\ \A m \in 1..(k - 1) : kb[m] # s

\* list.remove dropping every element equal to s.
list_remove_all(kb, s) == SelectSeq(kb, LAMBDA x : x # s)

list_remove(kb, s) ==
    LET k == first_index(kb, s)
    IN  SubSeq(kb, 1, k - 1) \o SubSeq(kb, k + 1, Len(kb))

list_contains(kb, s) == \E k \in 1..Len(kb) : kb[k] = s

\* "for sentence in self.knowledge: if len(sentence.cells) == 0:
\*      self.knowledge.remove(sentence)"
\* The list iterator advances its position after every element, also after
\* a removal has shifted the rest of the list to the left.
RECURSIVE remove_empty(_, _)
remove_empty(kb, pos) ==
    IF pos > Len(kb) THEN kb
    ELSE IF Cardinality(kb[pos].cells) = 0
         THEN remove_empty(list_remove(kb, kb[pos]), pos + 1)
         ELSE remove_empty(kb, pos + 1)

\* new_cells without the "not in self.safes" test.
new_cells_keep_safes(cell, h, w, mn, sf) ==
    {n \in neighbours(cell, h, w) : n \notin mn}

\* The candidate cells and the adjusted count of the new sentence.
new_cells(cell, h, w, mn, sf) ==
    {n \in neighbours(cell, h, w) : n \notin mn /\ n \notin sf}

\* new_count without the "count -= 1" for the neighbours known to be mines.
new_count_unadjusted(cell, count, h, w, mn) == count

new_count(cell, count, h, w, mn) ==
    count - Cardinality(neighbours(cell, h, w) \cap mn)

\* subset_step with the derived sentence keeping the superset's count.
subset_step_no_difference(kb, pos, cells, count) ==
    IF pos > Len(kb) THEN [kb |-> kb, err |-> TRUE]
    ELSE
    LET ki == kb[pos]
        new_sentence == Sentence(cells, count)
    IN  IF ki.cells # cells
        THEN IF ki.cells \subseteq cells
             THEN LET kb1 == Append(kb, Sentence(cells \ ki.cells, count))
                  IN  [kb |-> IF list_contains(kb1, new_sentence)
                              THEN list_remove(kb1, new_sentence)
                              ELSE kb1,
                       err |-> FALSE]
             ELSE IF cells \subseteq ki.cells
             THEN LET kb1 == Append(kb, Sentence(ki.cells \ cells, ki.count))
                  IN  [kb |-> list_remove(kb1, kb1[pos]), err |-> FALSE]
             ELSE [kb |-> kb, err |-> FALSE]
        ELSE [kb |-> kb, err |-> FALSE]

\* One iteration of the subset method for list position pos (Python index
\* pos - 1); err is set when the position is past the end of the list.
subset_step(kb, pos, cells, count) ==
    IF pos > Len(kb) THEN [kb |-> kb, err |-> TRUE]
    ELSE
    LET ki == kb[pos]
        new_sentence == Sentence(cells, count)
    IN  IF ki.cells # cells
        THEN IF ki.cells \subseteq cells
             THEN LET kb1 == Append(kb, Sentence(cells \ ki.cells,
                                                 count - ki.count))
                  IN  [kb |-> IF list_contains(kb1, new_sentence)
                              THEN list_remove(kb1, new_sentence)
                              ELSE kb1,
                       err |-> FALSE]
             ELSE IF cells \subseteq ki.cells
             THEN LET kb1 == Append(kb, Sentence(ki.cells \ cells,
                                                 ki.count - count))
                  IN  [kb |-> list_remove(kb1, kb1[pos]), err |-> FALSE]
             ELSE [kb |-> kb, err |-> FALSE]
        ELSE [kb |-> kb, err |-> FALSE]

\* "for i in range(length)": length is captured before the loop.
RECURSIVE subset_method(_, _, _, _, _)
subset_method(kb, pos, length, cells, count) ==
    IF pos > length THEN [kb |-> kb, err |-> FALSE]
    ELSE CHOOSE out \in
             {IF r.err THEN r
              ELSE subset_method(r.kb, pos + 1, length, cells, count) :
                 r \in {subset_step(kb, pos, cells, count)}} : TRUE

\* One iteration of the extraction loop, for the sentence at position pos.
extract_safes(st, pos) ==
    LET ks == known_safes(st.kb[pos])
    IN  IF ks # {}
        THEN [kb |-> knowledge_mark_safes(st.kb, ks),
              safes |-> st.safes \cup ks, mines |-> st.mines]
        ELSE st

\* extract_mines with self.mines replaced by the sentence's known mines.
extract_mines_replace(st, pos) ==
    LET km == known_mines(st.kb[pos])
    IN  IF km # {}
        THEN [kb |-> knowledge_mark_mines(st.kb, km),
              safes |-> st.safes, mines |-> km]
        ELSE st

extract_mines(st, pos) ==
    LET km == known_mines(st.kb[pos])
    IN  IF km # {}
        THEN [kb |-> knowledge_mark_mines(st.kb, km),
              safes |-> st.safes, mines |-> st.mines \cup km]
        ELSE st

extract_step(st, pos) ==
    CHOOSE out \in {extract_mines(s1, pos) : s1 \in {extract_safes(st, pos)}} :
        TRUE

\* The extraction loop stopping one sentence short of the end of the list.
RECURSIVE extract_skip_last(_, _)
extract_skip_last(st, pos) ==
    IF pos >= Len(st.kb) THEN st
    ELSE CHOOSE out \in
             {extract_skip_last(s1, pos + 1) : s1 \in {extract_step(st, pos)}} :
                 TRUE

\* "for sentence in self.knowledge": a single pass over the list.
RECURSIVE extract(_, _)
extract(st, pos) ==
    IF pos > Len(st.kb) THEN st
    ELSE CHOOSE out \in
             {extract(s1, pos + 1) : s1 \in {extract_step(st, pos)}} : TRUE

\* The whole of MinesweeperAI.add_knowledge as a function of the engine
\* state: the state on return (or at the point an IndexError is raised).
add_knowledge_result(cell, count, h, w, mv, mn, sf, kb) ==
    LET sf1   == sf \cup {cell}
        kb1   == knowledge_mark_safe(kb, cell)
        cells == new_cells(cell, h, w, mn, sf1)
        cnt   == new_count(cell, count, h, w, mn)
        kb2   == remove_empty(kb1, 1)
    IN  IF Cardinality(cells) = 0
        THEN [moves_made |-> mv \cup {cell}, mines |-> mn, safes |-> sf1,
              knowledge |-> kb2, raised |-> "none"]
        ELSE CHOOSE out \in
               {IF r.err
                THEN [moves_made |-> mv \cup {cell}, mines |-> mn,
                      safes |-> sf1, knowledge |-> r.kb,
                      raised |-> "IndexError"]
                ELSE CHOOSE res \in
                       {[moves_made |-> mv \cup {cell}, mines |-> e.mines,
                         safes |-> e.safes, knowledge |-> e.kb,
                         raised |-> "none"] :
                          e \in {extract([kb |-> r.kb, safes |-> sf1,
                                          mines |-> mn], 1)}} : TRUE :
                  r \in {subset_method(Append(kb2, Sentence(cells, cnt)), 1,
                                       Len(kb2) + 1, cells, cnt)}} : TRUE

(* ---------------------------- state machine ---------------------------- *)

NoSentence == Sentence({}, 0)

\* Return values: a cell, None, or (kind "TypeError") an exception raised
\* in place of a return.  cell is <<0, 0>> when kind is not "cell".
ReturnNone(op) == [op |-> op, kind |-> "none", cell |-> <<0, 0>>]

ReturnCell(op, cell) == [op |-> op, kind |-> "cell", cell |-> cell]

ReturnTypeError(op) == [op |-> op, kind |-> "TypeError", cell |-> <<0, 0>>]

\* __init__, add_knowledge, mark_mine and mark_safe have no return statement:
\* after them no move is on offer.
NoReturn == ReturnNone("")

NoHist == [init |-> NoSentence, told_mine |-> {}, told_safe |-> {}]

\* Minesweeper.__init__ (a board with a hidden layout) and
\* MinesweeperAI.__init__.
Init ==
    /\ \E b \in Boards : height = b[1] /\ width = b[2]
    /\ board_mines \in {m \in SUBSET board_cells(height, width) :
                           Cardinality(m) <= MaxMines}
    /\ moves_made = {}
    /\ mines = {}
    /\ safes = {}
    /\ knowledge = <<>>
    /\ raised = "none"
    /\ returned = NoReturn
    /\ sentence = NoSentence
    /\ hist = NoHist

\* MinesweeperAI.add_knowledge(cell, count)
add_knowledge(cell, count) ==
    /\ raised = "none"
    /\ \E r \in {add_knowledge_result(cell, count, height, width,
                                     moves_made, mines, safes, knowledge)} :
           /\ moves_made' = r.moves_made
           /\ mines' = r.mines
           /\ safes' = r.safes
           /\ knowledge' = r.knowledge
           /\ raised' = r.raised
    /\ returned' = NoReturn
    /\ UNCHANGED <<height, width, board_mines, sentence, hist>>

\* MinesweeperAI.mark_mine(cell)
mark_mine(cell) ==
    /\ raised = "none"
    /\ mines' = mines \cup {cell}
    /\ knowledge' = knowledge_mark_mine(knowledge, cell)
    /\ returned' = NoReturn
    /\ UNCHANGED <<height, width, board_mines, moves_made, safes, raised,
                   sentence, hist>>

\* MinesweeperAI.mark_safe(cell)
mark_safe(cell) ==
    /\ raised = "none"
    /\ safes' = safes \cup {cell}
    /\ knowledge' = knowledge_mark_safe(knowledge, cell)
    /\ returned' = NoReturn
    /\ UNCHANGED <<height, width, board_mines, moves_made, mines, raised,
                   sentence, hist>>

\* safe_moves without the "not in self.moves_made" test.
safe_moves_any(mv, sf) == sf

\* The cells make_safe_move can return: "for x in self.safes: if x not in
\* self.moves_made: return x" returns the first such cell in the iteration
\* order of the set, which is any of them.
safe_moves(mv, sf) == {x \in sf : x \notin mv}

\* MinesweeperAI.make_safe_move()
make_safe_move ==
    /\ raised = "none"
    /\ IF safe_moves(moves_made, safes) = {}
       THEN returned' = ReturnNone("make_safe_move")
       ELSE \E x \in safe_moves(moves_made, safes) :
               returned' = ReturnCell("make_safe_move", x)
    /\ UNCHANGED <<height, width, board_mines, moves_made, mines, safes,
                   knowledge, raised, sentence, hist>>

\* setall without "setall -= self.moves_made" and "setall -= self.safes".
setall_unfiltered(h, w, mv, sf, mn) ==
    {<<i, j>> : i \in 0..(w - 1), j \in 0..(h - 1)} \ mn

\* setall of make_random_move: "for i in range(0, self.width): for j in
\* range(0, self.height): setall.add((i, j))", less the three sets.
setall(h, w, mv, sf, mn) ==
    (({<<i, j>> : i \in 0..(w - 1), j \in 0..(h - 1)} \ mv) \ sf) \ mn

\* MinesweeperAI.make_random_move().  random.sample(setall, 1) picks any
\* element of the set up to Python 3.10 and raises TypeError ("Population
\* must be a sequence") from Python 3.11 on.
make_random_move ==
    /\ raised = "none"
    /\ IF Cardinality(setall(height, width, moves_made, safes, mines)) = 0
       THEN returned' = ReturnNone("make_random_move")
       ELSE \/ \E x \in setall(height, width, moves_made, safes, mines) :
                 returned' = ReturnCell("make_random_move", x)
            \/ returned' = ReturnTypeError("make_random_move")
    /\ UNCHANGED <<height, width, board_mines, moves_made, mines, safes,
                   knowledge, raised, sentence, hist>>

\* The truthful driver: it probes an in-bounds cell that is not a mine and
\* reports Minesweeper.nearby_mines for it.
probe(cell) ==
    /\ ~is_mine(cell, board_mines)
    /\ cell \notin moves_made \/ Len(knowledge) < MaxSentences
    /\ add_knowledge(cell, nearby_mines(cell, height, width, board_mines))

Probe == \E cell \in board_cells(height, width) : probe(cell)

Next == Probe

Spec == Init /\ [][Next]_vars

(* ------------- any caller of the MinesweeperAI interface --------------- *)

\* Board sizes and observation counts drawn for an arbitrary caller.
APIBoards == {<<1, 1>>, <<1, 2>>, <<2, 1>>, <<1, 3>>}

APICounts == 0..MaxCount

\* The cells an arbitrary caller passes: the board's and one outside it.
api_cells(h, w) == board_cells(h, w) \cup {<<-1, 0>>}

InitAPI ==
    /\ \E b \in APIBoards : height = b[1] /\ width = b[2]
    /\ board_mines = {}
    /\ moves_made = {}
    /\ mines = {}
    /\ safes = {}
    /\ knowledge = <<>>
    /\ raised = "none"
    /\ returned = NoReturn
    /\ sentence = NoSentence
    /\ hist = NoHist

AddKnowledge ==
    /\ Len(knowledge) < MaxSentences
    /\ \A k \in 1..Len(knowledge) :
          knowledge[k].count \in (0 - MaxCount)..MaxCount
    /\ \E cell \in api_cells(height, width) : \E count \in APICounts :
          add_knowledge(cell, count)

MarkMine == \E cell \in api_cells(height, width) : mark_mine(cell)

MarkSafe == \E cell \in api_cells(height, width) : mark_safe(cell)

NextAPI ==
    \/ AddKnowledge
    \/ MarkMine
    \/ MarkSafe
    \/ make_safe_move
    \/ make_random_move

SpecAPI == InitAPI /\ [][NextAPI]_vars

\* The caller that only feeds the engine, asking for no move: the three
\* methods that change moves_made, safes, mines or knowledge.
NextUpdates == AddKnowledge \/ MarkMine \/ MarkSafe

SpecUpdates == InitAPI /\ [][NextUpdates]_vars

(* ------------------- a Sentence on its own ----------------------------- *)

\* Board sizes drawn for a stand-alone Sentence.
SentenceBoards == {<<2, 2>>}

well_formed(s) == 0 <= s.count /\ s.count <= Cardinality(s.cells)

\* Any Sentence over the board with 0 <= count <= |cells|, and any layout.
InitSentence ==
    /\ \E b \in SentenceBoards : height = b[1] /\ width = b[2]
    /\ board_mines \in SUBSET board_cells(height, width)
    /\ moves_made = {}
    /\ mines = {}
    /\ safes = {}
    /\ knowledge = <<>>
    /\ raised = "none"
    /\ returned = NoReturn
    /\ \E cs \in SUBSET board_cells(height, width) :
          \E n \in 0..Cardinality(cs) : sentence = Sentence(cs, n)
    /\ hist = [init |-> sentence, told_mine |-> {}, told_safe |-> {}]

\* Sentence.mark_mine(cell) on the stand-alone Sentence
SentenceMarkMine ==
    \E cell \in board_cells(height, width) :
        /\ sentence' = Sentence_mark_mine(sentence, cell)
        /\ hist' = [hist EXCEPT !.told_mine = @ \cup {cell}]
        /\ UNCHANGED <<height, width, board_mines, engine_vars>>

\* Sentence.mark_safe(cell) on the stand-alone Sentence
SentenceMarkSafe ==
    \E cell \in board_cells(height, width) :
        /\ sentence' = Sentence_mark_safe(sentence, cell)
        /\ hist' = [hist EXCEPT !.told_safe = @ \cup {cell}]
        /\ UNCHANGED <<height, width, board_mines, engine_vars>>

NextSentence == SentenceMarkMine \/ SentenceMarkSafe

SpecSentence == InitSentence /\ [][NextSentence]_vars

(* ---------------------------- properties ------------------------------- *)

sentences == {knowledge[k] : k \in 1..Len(knowledge)}

\* The locals of add_knowledge(cell, count) when it builds the new
\* sentence: the knowledge list, the candidate cells, the adjusted count.
built_kb(cell) == remove_empty(knowledge_mark_safe(knowledge, cell), 1)

built_cells(cell) == new_cells(cell, height, width, mines, safes \cup {cell})

built_count(cell) ==
    new_count(cell, nearby_mines(cell, height, width, board_mines),
              height, width, mines)

\* A step that can be add_knowledge(cell, ...): it puts cell in moves_made.
called(cell) == moves_made' = moves_made \cup {cell}

\* C1: every cell in safes is not a mine of the hidden layout and every
\* cell in mines is one.
C1_Sound ==
    /\ \A c \in safes : ~is_mine(c, board_mines)
    /\ \A c \in mines : is_mine(c, board_mines)

C1_Witness ==
    /\ mines # {}
    /\ safes \ moves_made # {}
    /\ Cardinality(moves_made) >= 3
    /\ mines \cup safes = board_cells(height, width)

\* C2: no cell of mines is in safes or in moves_made.
C2_Disjoint == mines \cap safes = {} /\ mines \cap moves_made = {}

C2_Witness ==
    /\ Cardinality(mines) >= 2
    /\ Cardinality(moves_made) >= 2
    /\ \E c \in mines : neighbours(c, height, width) \cap moves_made # {}

\* C3: every sentence of the knowledge base, derived ones included, has
\* 0 <= count <= |cells|.
C3_CountInRange == \A s \in sentences : well_formed(s)

\* A sentence that is no cell's neighbourhood less the known cells, so a
\* derived one, with an undetermined count.
C3_Witness ==
    \E s \in sentences :
        /\ s.count > 0 /\ s.count < Cardinality(s.cells)
        /\ \A c \in moves_made :
              s.cells # neighbours(c, height, width) \ (safes \cup mines)

\* C4: a Sentence that starts with 0 <= count <= |cells| keeps it through
\* any sequence of Sentence.mark_mine and Sentence.mark_safe calls.
C4_AnyMarks == well_formed(sentence)

\* The marks told to the stand-alone Sentence agree with the hidden layout,
\* and its first count was the number of mines among its cells.
truthful_marks ==
    /\ hist.init.count = Cardinality(hist.init.cells \cap board_mines)
    /\ hist.told_mine \subseteq board_mines
    /\ hist.told_safe \cap board_mines = {}

\* C4 as amended: a Sentence whose count is the number of mines among its
\* cells keeps 0 <= count <= |cells| through any sequence of mark_mine
\* calls on mines and mark_safe calls on cells that are not mines.
C4_TruthfulMarks == truthful_marks => well_formed(sentence)

C4_Witness ==
    /\ truthful_marks
    /\ hist.told_mine \cap hist.init.cells # {}
    /\ hist.told_safe \cap hist.init.cells # {}
    /\ sentence.cells # {}
    /\ sentence.count = Cardinality(hist.init.cells \cap board_mines) - 1

\* C5: no cell of any sentence of the knowledge base is in safes or mines.
C5_Reduced == \A s \in sentences : s.cells \cap (safes \cup mines) = {}

C5_Witness ==
    /\ \E s \in sentences : Cardinality(s.cells) >= 1
    /\ mines # {}
    /\ safes \ moves_made # {}
    /\ moves_made # {}

\* C6: when add_knowledge has returned, no sentence with cells has count 0
\* or count = |cells|, and running the extraction again changes nothing.
C6_Fixpoint ==
    moves_made # {} =>
        /\ \A s \in sentences :
              s.cells # {} => s.count # 0 /\ s.count # Cardinality(s.cells)
        /\ extract([kb |-> knowledge, safes |-> safes, mines |-> mines], 1)
              = [kb |-> knowledge, safes |-> safes, mines |-> mines]

\* C7: when add_knowledge has returned, no sentence of the knowledge base
\* has an empty cell set.
C7_NoEmpty == moves_made # {} => \A s \in sentences : s.cells # {}

\* C8: an observation whose adjusted count is 0 leaves every in-bounds
\* neighbour of the probed cell in safes.
C8_ZeroRuleAll ==
    [][\A cell \in board_cells(height, width) :
          (called(cell) /\ built_count(cell) = 0 /\ probe(cell))
              => neighbours(cell, height, width) \subseteq safes']_vars

\* C8 as amended: an observation whose adjusted count is 0 leaves every
\* in-bounds neighbour of the probed cell that is not in mines in safes.
C8_ZeroRule ==
    [][\A cell \in board_cells(height, width) :
          (called(cell) /\ built_count(cell) = 0 /\ probe(cell))
              => neighbours(cell, height, width) \ mines \subseteq safes']_vars

\* The centre of a 3x3 board probed with count 0: all 8 neighbours safe.
C8_Witness ==
    /\ height = 3 /\ width = 3
    /\ board_mines = {}
    /\ moves_made = {<<1, 1>>}
    /\ safes = board_cells(3, 3)

\* C9: an observation whose adjusted count equals the number of neighbours
\* in neither safes nor mines leaves every one of them in mines.
C9_FullRule ==
    [][\A cell \in board_cells(height, width) :
          (called(cell) /\ built_count(cell) = Cardinality(built_cells(cell))
              /\ probe(cell))
              => built_cells(cell) \subseteq mines']_vars

\* The corner (0,0) probed with count 3: its three neighbours are mines.
C9_Witness ==
    /\ moves_made = {<<0, 0>>}
    /\ board_mines = {<<0, 1>>, <<1, 0>>, <<1, 1>>}
    /\ mines = {<<0, 1>>, <<1, 0>>, <<1, 1>>}

\* C10: when add_knowledge builds a sentence B while the knowledge base
\* holds a sentence A with non-empty A.cells a strict subset of B.cells,
\* then on return the cells of B - A are all in mines if
\* B.count - A.count = |B - A| and all in safes if B.count - A.count = 0.
C10_Subset ==
    [][\A cell \in board_cells(height, width) :
          (called(cell) /\ probe(cell)) =>
            \A A \in {built_kb(cell)[k] : k \in 1..Len(built_kb(cell))} :
              LET B == Sentence(built_cells(cell), built_count(cell))
                  D == B.cells \ A.cells
              IN  (A.cells # {} /\ A.cells \subseteq B.cells
                                /\ A.cells # B.cells)
                  => /\ (B.count - A.count = Cardinality(D))
                            => D \subseteq mines'
                     /\ (B.count - A.count = 0) => D \subseteq safes']_vars

\* C11: on every board size, a cell returned by make_random_move is a cell
\* of the board (row in 0..height-1, column in 0..width-1) and is in none
\* of moves_made, safes and mines.
C11_RandomInBounds ==
    (returned.op = "make_random_move" /\ returned.kind = "cell")
        => /\ returned.cell \in board_cells(height, width)
           /\ returned.cell \notin moves_made
           /\ returned.cell \notin safes
           /\ returned.cell \notin mines

\* C12: on every board size, make_random_move returns None whenever no
\* cell of the board is left outside moves_made, safes and mines.
C12_RandomNone ==
    (/\ returned.op = "make_random_move"
     /\ ((board_cells(height, width) \ moves_made) \ safes) \ mines = {})
        => returned.kind = "none"

\* C13: make_safe_move returns a cell of safes that is not in moves_made
\* whenever there is one, returns None exactly when safes is a subset of
\* moves_made, and changes none of moves_made, safes, mines and knowledge.
C13_SafeMove ==
    [][returned'.op = "make_safe_move"
          => /\ UNCHANGED <<moves_made, safes, mines, knowledge>>
             /\ (safes \ moves_made # {})
                   => /\ returned'.kind = "cell"
                      /\ returned'.cell \in safes
                      /\ returned'.cell \notin moves_made
             /\ (returned'.kind = "none") <=> (safes \subseteq moves_made)]_vars

C13_Witness ==
    /\ returned.op = "make_safe_move"
    /\ returned.kind = "cell"
    /\ moves_made # {}
    /\ Cardinality(safes \ moves_made) >= 2

\* C14: add_knowledge with a cell outside the board is rejected: the cell
\* is added neither to moves_made nor to safes and no sentence is created.
C14_Rejected ==
    [][\A cell \in api_cells(height, width) \ board_cells(height, width) :
          \A count \in APICounts :
             (returned' = NoReturn /\ add_knowledge(cell, count))
                => /\ moves_made' = moves_made
                   /\ safes' = safes
                   /\ knowledge' = knowledge]_vars

\* C15: over any sequence of add_knowledge, mark_safe, mark_mine,
\* make_safe_move and make_random_move calls, moves_made, safes and mines
\* only grow.
C15_Monotonic ==
    [][/\ moves_made \subseteq moves_made'
       /\ safes \subseteq safes'
       /\ mines \subseteq mines']_vars

C15_Witness ==
    /\ moves_made # {}
    /\ mines # {}
    /\ Cardinality(safes) >= 2
    /\ Len(knowledge) >= 2
    /\ returned.op = "make_random_move"

\* C16: when add_knowledge returns, the knowledge list holds no two
\* distinct sentences A and B with A.cells non-empty and a strict subset
\* of B.cells.
C16_NoStrictSubset ==
    \A a \in 1..Len(knowledge) : \A b \in 1..Len(knowledge) :
        ~(/\ a # b
          /\ knowledge[a].cells # {}
          /\ knowledge[a].cells \subseteq knowledge[b].cells
          /\ knowledge[a].cells # knowledge[b].cells)

\* C17: under the truthful driver every sentence of the knowledge list is
\* true of the hidden layout: the number of mines among its cells is its
\* count.
C17_True ==
    \A k \in 1..Len(knowledge) :
        Cardinality(knowledge[k].cells \cap board_mines) = knowledge[k].count

C17_Witness ==
    /\ mines # {}
    /\ \E k \in 1..Len(knowledge) :
          /\ knowledge[k].count >= 1
          /\ Cardinality(knowledge[k].cells) > knowledge[k].count
          /\ \E c \in moves_made :
                /\ knowledge[k].cells \subseteq neighbours(c, height, width)
                /\ neighbours(c, height, width) \cap mines # {}

\* C18: every add_knowledge call runs to its end: the subset loop, which
\* appends to and removes from the list while indexing it up to the length
\* taken before the loop, never indexes past the end of the list.
C18_Completes == raised = "none"

C18_Witness ==
    /\ raised = "none"
    /\ Len(knowledge) >= 3
    /\ Len(knowledge) > Cardinality(moves_made)

\* C19: mark_mine(cell) adds cell to mines and, in every sentence that
\* contains cell, removes it and lowers the count by exactly one; every
\* other sentence, moves_made, safes and the number of sentences stay as
\* they are.  mark_safe(cell) adds cell to safes and removes it from every
\* sentence that contains it; all counts, moves_made and mines stay as
\* they are.
C19_MarkFrame ==
    [][\A cell \in api_cells(height, width) :
          /\ (returned' = NoReturn /\ mark_mine(cell))
                => /\ mines' = mines \cup {cell}
                   /\ moves_made' = moves_made
                   /\ safes' = safes
                   /\ Len(knowledge') = Len(knowledge)
                   /\ \A k \in 1..Len(knowledge) :
                         IF cell \in knowledge[k].cells
                         THEN /\ knowledge'[k].cells
                                    = knowledge[k].cells \ {cell}
                              /\ knowledge'[k].count = knowledge[k].count - 1
                         ELSE knowledge'[k] = knowledge[k]
          /\ (returned' = NoReturn /\ mark_safe(cell))
                => /\ safes' = safes \cup {cell}
                   /\ moves_made' = moves_made
                   /\ mines' = mines
                   /\ Len(knowledge') = Len(knowledge)
                   /\ \A k \in 1..Len(knowledge) :
                         /\ knowledge'[k].cells = knowledge[k].cells \ {cell}
                         /\ knowledge'[k].count = knowledge[k].count]_vars

C19_Witness ==
    /\ mines \cap moves_made # {}
    /\ <<-1, 0>> \in safes \ moves_made
    /\ \E k \in 1..Len(knowledge) : knowledge[k].count < 0

\* C20: in every reachable state moves_made is a subset of safes, and
\* neither make_safe_move nor make_random_move returns a cell of moves_made.
C20_ProbedSafe ==
    /\ moves_made \subseteq safes
    /\ (returned.kind = "cell") => returned.cell \notin moves_made

C20_Witness ==
    /\ returned.op = "make_random_move"
    /\ returned.kind = "cell"
    /\ moves_made # {}
    /\ returned.cell \notin safes

====
